---- MODULE Spec2Model ----
(***************************************************************************)
(* Model of the rust-tracer renderer (src/main.rs, src/geometry.rs,        *)
(* src/vec_math.rs): vector algebra, ray/primitive intersection, the       *)
(* closest-hit search, diffuse/specular shading and the per-pixel render   *)
(* loop with its bounded mirror-reflection loop.                           *)
(*                                                                         *)
(* f32 values are modelled as fixed-point numbers: the integer v stands    *)
(* for the real v / Scale, and every arithmetic operation rounds its       *)
(* result to the nearest representable value, as every f32 operation       *)
(* does.  f32::MAX and the IEEE values a division by zero produces (+inf,  *)
(* -inf, NaN) are modelled by reserved integers; they arise in the         *)
(* triangle test, whose determinant is zero for a ray parallel to the      *)
(* triangle's plane, and are compared the IEEE way (Lt, Gt, Ge).           *)
(***************************************************************************)
EXTENDS Integers, Sequences, FiniteSets, TLC

\* ------------------------------------------------------------------ bounds
\* Largest reflection_depth drawn by Init (depths -1 .. MaxDepth).
MaxDepth == 2
\* Largest pixel_count (image side) drawn by Init (1 .. MaxRes).
MaxRes == 2
\* Largest number of primitives (spheres plus triangles) in a scene.
MaxPrims == 2

\* ------------------------------------------------------------ f32 numbers
\* One unit in fixed point: the integer Scale stands for 1.0.
Scale == 1000
\* f32::MAX, the reserved "no hit" distance.
F32MAX == 2000000000
PInf == F32MAX + 1
NInf == -(F32MAX + 1)
NaN == -(F32MAX + 2)

IsNaN(a) == a = NaN

\* IEEE comparisons: every comparison with NaN is false.
Lt(a, b) == ~IsNaN(a) /\ ~IsNaN(b) /\ a < b
Gt(a, b) == Lt(b, a)
Ge(a, b) == ~IsNaN(a) /\ ~IsNaN(b) /\ a >= b

\* f32 multiplication, rounded to the nearest value.
Mul(a, b) == (a * b + Scale \div 2) \div Scale

\* f32 division, rounded to the nearest value: x/0 is +inf or -inf by the sign
\* of x, and 0/0 is NaN.
Div(a, b) ==
    IF b = 0 THEN (IF a = 0 THEN NaN ELSE IF a > 0 THEN PInf ELSE NInf)
    ELSE IF b > 0 THEN (a * Scale + b \div 2) \div b
    ELSE (-(a * Scale) + (-b) \div 2) \div (-b)

RECURSIVE ISqrt(_, _, _)
\* Largest r in lo..hi with r*r <= n (binary search).
ISqrt(n, lo, hi) ==
    IF lo >= hi THEN lo
    ELSE LET mid == (lo + hi + 1) \div 2
         IN  IF mid * mid <= n THEN ISqrt(n, mid, hi) ELSE ISqrt(n, lo, mid - 1)

\* f32::sqrt of a non-negative value, rounded to the nearest value.
Sqrt(a) ==
    LET n == a * Scale
        r == ISqrt(n, 0, 46340)
    IN  IF n - r * r > r THEN r + 1 ELSE r

\* f32::min.
Min(a, b) == IF a < b THEN a ELSE b

\* f32::clamp(x, lo, hi).
Clamp(x, lo, hi) == IF x < lo THEN lo ELSE IF x > hi THEN hi ELSE x

\* x.powf(11.0): eleven-fold product.
Powf11(x) ==
    LET x2 == Mul(x, x)
        x4 == Mul(x2, x2)
        x8 == Mul(x4, x4)
    IN  Mul(Mul(x8, x2), x)

\* `v as u8`: truncation toward zero, saturating at 0 and 255.
AsU8(v) ==
    IF v <= 0 THEN 0
    ELSE IF v >= 255 * Scale THEN 255
    ELSE v \div Scale

\* ------------------------------------------------------------ vec_math.rs
vec(x, y, z) == [x |-> x, y |-> y, z |-> z]

VAdd(a, b) == vec(a.x + b.x, a.y + b.y, a.z + b.z)
VSub(a, b) == vec(a.x - b.x, a.y - b.y, a.z - b.z)
VScale(a, k) == vec(Mul(a.x, k), Mul(a.y, k), Mul(a.z, k))
Dot(a, b) == Mul(a.x, b.x) + Mul(a.y, b.y) + Mul(a.z, b.z)

mag(a) == Sqrt(Mul(a.x, a.x) + Mul(a.y, a.y) + Mul(a.z, a.z))

norm(a) ==
    LET magnitude == mag(a)
    IN  vec(Div(a.x, magnitude), Div(a.y, magnitude), Div(a.z, magnitude))

cross(a, b) ==
    vec(Mul(a.y, b.z) - Mul(a.z, b.y),
        -(Mul(a.x, b.z) - Mul(a.z, b.x)),
        Mul(a.x, b.y) - Mul(a.y, b.x))

Ray(start_pos, direction_vector) ==
    [start_pos |-> start_pos, direction_vector |-> direction_vector]

\* ------------------------------------------------------------ geometry.rs
Reflective == "Reflective"
Glossy == "Glossy"
Matte == "Matte"
MaterialType == {Reflective, Glossy, Matte}

Material(color, t) == [color |-> color, t |-> t]

RayHit(t, mat, intersect, surface_normal, id) ==
    [t |-> t, mat |-> mat, intersect |-> intersect,
     surface_normal |-> surface_normal, id |-> id]

\* The linear system triangle_hit solves by Cramer's rule: t, gamma, beta.
TriSolve(tr, r) ==
    LET a == tr.a.x - tr.b.x
        b == tr.a.y - tr.b.y
        c == tr.a.z - tr.b.z
        d == tr.a.x - tr.c.x
        e == tr.a.y - tr.c.y
        f == tr.a.z - tr.c.z
        g == r.direction_vector.x
        h == r.direction_vector.y
        i == r.direction_vector.z
        j == tr.a.x - r.start_pos.x
        k == tr.a.y - r.start_pos.y
        l == tr.a.z - r.start_pos.z
        eihf == Mul(e, i) - Mul(h, f)
        gfdi == Mul(g, f) - Mul(d, i)
        dheg == Mul(d, h) - Mul(e, g)
        akjb == Mul(a, k) - Mul(j, b)
        jcal == Mul(j, c) - Mul(a, l)
        blkc == Mul(b, l) - Mul(k, c)
        m == Mul(a, eihf) + Mul(b, gfdi) + Mul(c, dheg)
    IN  [t     |-> Div(-(Mul(f, akjb) + Mul(e, jcal) + Mul(d, blkc)), m),
         gamma |-> Div(Mul(i, akjb) + Mul(h, jcal) + Mul(g, blkc), m),
         beta  |-> Div(Mul(j, eihf) + Mul(k, gfdi) + Mul(l, dheg), m)]

\* Variant of TriangleNormal: the operands of the cross product swapped.
TriangleNormal_swapped(tr) == norm(cross(VSub(tr.c, tr.a), VSub(tr.b, tr.a)))

\* The normal triangle_hit stores on an accepted hit.
TriangleNormal(tr) == norm(cross(VSub(tr.b, tr.a), VSub(tr.c, tr.a)))

\* Variant of OutOfRange: a hit farther than the seed is not rejected.
OutOfRange_nofar(t, close_t) == Lt(t, 0)

\* The first rejection test of triangle_hit, on the solved t.
OutOfRange(t, close_t) == Lt(t, 0) \/ Gt(t, close_t)

\* 1.0 - gamma (NaN when gamma is NaN).
OneMinus(gamma) == IF IsNaN(gamma) THEN NaN ELSE Scale - gamma

\* start_pos + direction_vector * t (NaN in every component when t is NaN).
PointAt(r, t) ==
    IF IsNaN(t) THEN vec(NaN, NaN, NaN)
    ELSE VAdd(r.start_pos, VScale(r.direction_vector, t))

triangle_hit(tr, r, close) ==
    LET s == TriSolve(tr, r)
    IN  IF OutOfRange(s.t, close.t) THEN close
        ELSE IF Lt(s.gamma, 0) \/ Gt(s.gamma, Scale) THEN close
        ELSE IF Lt(s.beta, 0) \/ Gt(s.beta, OneMinus(s.gamma)) THEN close
        ELSE RayHit(s.t, tr.mat, PointAt(r, s.t), TriangleNormal(tr), tr.id)

sphere_intersect(s, r) ==
    LET emc == VSub(r.start_pos, s.center)
        ddd == Dot(r.direction_vector, r.direction_vector)
        ddemc == Dot(r.direction_vector, emc)
        discriminant ==
            Mul(ddemc, ddemc) - Mul(ddd, Dot(emc, emc) - Mul(s.radius, s.radius))
        t1 == Div(-ddemc + Sqrt(discriminant), ddd)
        t2 == Div(-ddemc - Sqrt(discriminant), ddd)
    IN  IF discriminant < 0 THEN -Scale
        ELSE IF t1 < 0 THEN t2
        ELSE IF t2 < 0 THEN t1
        ELSE Min(t1, t2)

sphere_hit(s, r) ==
    LET t_out == sphere_intersect(s, r)
        intersection == VAdd(r.start_pos, VScale(r.direction_vector, t_out))
    IN  RayHit(t_out, s.mat, intersection, norm(VSub(intersection, s.center)), s.id)

\* ---------------------------------------------------------------- main.rs
\* Constant null Material used as a default.
NUL == Material(vec(0, 0, 0), Matte)

\* World-space width of the image plane.
image_size == 2

start_pos == vec(0, 0, 0)
light_pos == vec(-3 * Scale, 8 * Scale, -6 * Scale)

\* pixel_width as main computes it from image_size and pixel_count.
PixelWidth(n) == Div(image_size * Scale, n * Scale)

get_ray(x, y, starting_pos, pixel_width) ==
    LET img_x == Mul(x * Scale, pixel_width) + Div(pixel_width, 2 * Scale) - Scale
        img_y == -(Mul(y * Scale, pixel_width) + Div(pixel_width, 2 * Scale) - Scale)
    IN  Ray(starting_pos, norm(vec(img_x, img_y, -2 * Scale)))

\* The record find_closest_hit starts from: the "no hit" sentinel.
NoHit(ray) == RayHit(F32MAX, NUL, ray.start_pos, ray.start_pos, -2)

\* Variant of Closer: the excluded id is not tested.
Closer_noid(temp, r, id) == Lt(temp.t, r.t) /\ Gt(temp.t, 0)

\* Variant of Closer: hits behind the ray origin are not rejected.
Closer_nopositive(temp, r, id) == Lt(temp.t, r.t) /\ temp.id # id

\* The test under which find_closest_hit adopts a candidate hit.
Closer(temp, r, id) == (Lt(temp.t, r.t) /\ Gt(temp.t, 0)) /\ temp.id # id

RECURSIVE SphereLoop(_, _, _, _)
\* The best hit after the first n spheres.
SphereLoop(ray, id, ss, n) ==
    IF n = 0 THEN NoHit(ray)
    ELSE LET r == SphereLoop(ray, id, ss, n - 1)
             temp == sphere_hit(ss[n], ray)
         IN  IF Closer(temp, r, id) THEN temp ELSE r

RECURSIVE TriangleLoop(_, _, _, _, _)
\* The best hit after all spheres and the first n triangles.
TriangleLoop(ray, id, ss, ts, n) ==
    IF n = 0 THEN SphereLoop(ray, id, ss, Len(ss))
    ELSE LET r == TriangleLoop(ray, id, ss, ts, n - 1)
             temp == triangle_hit(ts[n], ray, r)
         IN  IF Closer(temp, r, id) THEN temp ELSE r

find_closest_hit(ray, id, ss, ts) == TriangleLoop(ray, id, ss, ts, Len(ts))

\* The ambient floor 0.2 of the diffuse term.
Fifth == Scale \div 5

\* Variant of InShadow: the blocker is compared with the light the wrong way.
InShadow_beyond(light_blocker, dist) ==
    Gt(light_blocker.t, 0) /\ Lt(dist, light_blocker.t)

\* The shadow test of diffuse_calc and specular_calc.
InShadow(light_blocker, dist) ==
    Gt(light_blocker.t, 0) /\ Gt(dist, light_blocker.t)

diffuse_calc(r, light, ss, ts) ==
    LET to_light == VSub(light, r.intersect)
        to_light_norm == norm(to_light)
        light_blocker == find_closest_hit(Ray(r.intersect, to_light_norm), r.id, ss, ts)
    IN  IF InShadow(light_blocker, mag(to_light)) THEN Fifth
        ELSE Clamp(Dot(to_light_norm, r.surface_normal), Fifth, Scale)

specular_calc(surface_norm, light, pos, ss, ts, id) ==
    LET light_dir_norm == norm(VSub(light, pos))
        reflect ==
            VSub(VScale(surface_norm, Mul(Dot(surface_norm, light_dir_norm), 2 * Scale)),
                 light_dir_norm)
        specular == Powf11(Dot(norm(reflect), norm(VScale(pos, -Scale))))
        light_blocker == find_closest_hit(Ray(pos, light_dir_norm), id, ss, ts)
    IN  IF InShadow(light_blocker, mag(VSub(light, pos))) THEN 0
        ELSE Clamp(specular, 0, Scale)

\* One channel of a pixel shaded with the diffuse term only.
DiffuseChannel(c, diffuse) == AsU8(Mul(Mul(c, diffuse), 255 * Scale))

\* One channel of a pixel shaded with the diffuse and the specular terms.
GlossyChannel(c, diffuse, specular) ==
    AsU8(Mul(Mul(c, diffuse) + specular, 255 * Scale))

\* The test main applies to a RayHit to tell a hit from the sentinel.
IsHit(h) == Ge(h.t, 0) /\ h.t # F32MAX

\* The mirror direction of the reflection loop.
ReflectDir(d, n) == norm(VAdd(VScale(n, Mul(-2 * Scale, Dot(d, n))), d))

\* Variant of LoopRange: an inclusive upper limit.
LoopRange_inclusive(j, depth) == j <= depth

\* `for _i in 0..reflection_depth`: the iteration with index j runs.
LoopRange(j, depth) == j < depth

\* Variant of Resolved: the material of the final hit is not tested.
Resolved_anymaterial(hit, escaped) == ~escaped

\* The test after the loop that lets the final hit be shaded.
Resolved(hit, escaped) == hit.mat.t # Reflective /\ ~escaped

\* Variant of FreshChannel: the channel keeps the previous pixel's value.
FreshChannel_stale(old) == old

\* `let mut r = 0 as u8`: each pixel starts from black.
FreshChannel(old) == 0

\* --------------------------------------------------------------- scenes
V(x, y, z) == vec(x * Scale, y * Scale, z * Scale)

Sphere(center, radius, mat, id) ==
    [center |-> center, radius |-> radius, mat |-> mat, id |-> id]

Triangle(a, b, c, mat, id) == [a |-> a, b |-> b, c |-> c, mat |-> mat, id |-> id]

\* Spheres a scene file can hold: a matte sphere in front of the camera, a
\* glossy one behind it, a large one between that matte sphere and the light
\* (seen off-centre by a corner pixel), and one whose id failed to parse (-1).
SphereCatalogue ==
    { Sphere(V(0, 0, -5), Scale, Material(V(1, 0, 0), Matte), 1),
      Sphere(V(0, 0, 4), Scale, Material(V(0, 1, 0), Glossy), 2),
      Sphere(vec(-1500, 4000, -5000), 3 * Scale, Material(V(0, 0, 1), Matte), 3),
      Sphere(V(0, 0, -8), 2 * Scale, Material(V(0, 0, 1), Matte), -1) }

\* Triangles a scene file can hold: a mirror in front of the camera, a
\* mirror behind it, a glossy triangle touching the matte sphere's front (its
\* vertices in the opposite winding), and a matte triangle whose plane holds
\* the central primary ray.
TriangleCatalogue ==
    { Triangle(V(-3, -3, -5), V(3, -3, -5), V(0, 3, -5), Material(V(1, 1, 1), Reflective), 5),
      Triangle(vec(-2000, -1000, 3000), vec(1000, 2000, 3000), vec(4500, -5000, 3000),
               Material(V(1, 1, 1), Reflective), 6),
      Triangle(V(-3, -3, -4), vec(0, 2500, -4000), V(3, -3, -4),
               Material(V(1, 1, 0), Glossy), 7),
      Triangle(V(-1, 0, -3), V(1, 0, -3), V(0, 0, -6), Material(V(0, 1, 1), Matte), 8) }

\* Sequences without repetition of at most n elements of S.
RECURSIVE Arrangements(_, _)
Arrangements(S, n) ==
    IF n = 0 THEN {<<>>}
    ELSE LET shorter == Arrangements(S, n - 1)
         IN  shorter \cup
             {Append(q, e) : <<q, e>> \in
                 {p \in shorter \X S : \A j \in 1..Len(p[1]) : p[1][j] # p[2]}}

\* Row-major enumeration and its reverse.
Orders == {"fwd", "rev"}

PixelIndex(ord, done, n) == IF ord = "fwd" THEN done ELSE n * n - 1 - done

Black == <<0, 0, 0>>

VARIABLES
    spheres, triangles,      \* the scene, read-only after loading
    pixel_count,             \* --res
    reflection_depth,        \* --ref
    pc,                      \* position in main's render loop
    rerun,                   \* TRUE while the scene is rendered a second time
    order,                   \* order in which this run enumerates the pixels
    k,                       \* pixels written in this run
    img,                     \* the pixel buffer of this run
    prev,                    \* the pixel buffer of the first run
    r, g, b,                 \* the channels of the current pixel
    ray_to_target, ray_hit,  \* the current ray and its closest hit
    hit_space,               \* the reflected ray escaped
    i,                       \* index of the reflection loop's iteration
    bounces,                 \* reflected rays cast for the current pixel
    branch                   \* material branch taken for the current pixel

vars == <<spheres, triangles, pixel_count, reflection_depth, pc, rerun, order, k,
          img, prev, r, g, b, ray_to_target, ray_hit, hit_space, i, bounces, branch>>

config == <<spheres, triangles, pixel_count, reflection_depth>>

Blank(n) == [p \in 0..(n * n - 1) |-> Black]

Init ==
    /\ spheres \in Arrangements(SphereCatalogue, MaxPrims)
    /\ triangles \in Arrangements(TriangleCatalogue, MaxPrims)
    /\ Len(spheres) + Len(triangles) <= MaxPrims
    /\ pixel_count \in 1..MaxRes
    /\ reflection_depth \in -1..MaxDepth
    /\ pc = "pixel"
    /\ rerun = FALSE
    /\ order = "fwd"
    /\ k = 0
    /\ img = Blank(pixel_count)
    /\ prev = Blank(pixel_count)
    /\ r = 0 /\ g = 0 /\ b = 0
    /\ ray_to_target = Ray(start_pos, start_pos)
    /\ ray_hit = NoHit(Ray(start_pos, start_pos))
    /\ hit_space = FALSE
    /\ i = 0
    /\ bounces = 0
    /\ branch = "none"

\* The pixel the current iteration of the render loop works on.
CurrentPixel == PixelIndex(order, k, pixel_count)

\* `*pixel = image::Rgb([r, g, b])` and the advance to the next pixel.
WritePixel(rr, gg, bb) ==
    /\ r' = rr /\ g' = gg /\ b' = bb
    /\ img' = [img EXCEPT ![CurrentPixel] = <<rr, gg, bb>>]
    /\ k' = k + 1
    /\ pc' = IF k + 1 = pixel_count * pixel_count THEN "save" ELSE "pixel"

\* Lines 273-279: the pixel starts black and its primary ray is cast.
PrimaryRay ==
    /\ pc = "pixel"
    /\ \E ray \in {get_ray(CurrentPixel % pixel_count, CurrentPixel \div pixel_count,
                           start_pos, PixelWidth(pixel_count))} :
          /\ ray_to_target' = ray
          /\ ray_hit' = find_closest_hit(ray, -1, spheres, triangles)
    /\ r' = FreshChannel(r) /\ g' = FreshChannel(g) /\ b' = FreshChannel(b)
    /\ pc' = "shade"
    /\ branch' = "none"
    /\ bounces' = 0
    /\ UNCHANGED <<config, rerun, order, k, img, prev, hit_space, i>>

\* Line 281 false: nothing was hit, the pixel keeps its initial colour.
Miss ==
    /\ pc = "shade"
    /\ ~IsHit(ray_hit)
    /\ WritePixel(r, g, b)
    /\ branch' = "miss"
    /\ UNCHANGED <<config, rerun, order, prev, ray_to_target, ray_hit, hit_space, i, bounces>>

\* Lines 282-287.
ShadeMatte ==
    /\ pc = "shade"
    /\ IsHit(ray_hit)
    /\ ray_hit.mat.t = Matte
    /\ \E diffuse \in {diffuse_calc(ray_hit, light_pos, spheres, triangles)} :
          WritePixel(DiffuseChannel(ray_hit.mat.color.x, diffuse),
                     DiffuseChannel(ray_hit.mat.color.y, diffuse),
                     DiffuseChannel(ray_hit.mat.color.z, diffuse))
    /\ branch' = "matte"
    /\ UNCHANGED <<config, rerun, order, prev, ray_to_target, ray_hit, hit_space, i, bounces>>

\* Lines 288-301.
ShadeGlossy ==
    /\ pc = "shade"
    /\ IsHit(ray_hit)
    /\ ray_hit.mat.t = Glossy
    /\ \E diffuse \in {diffuse_calc(ray_hit, light_pos, spheres, triangles)} :
       \E specular \in {specular_calc(ray_hit.surface_normal, light_pos, ray_hit.intersect,
                                      spheres, triangles, ray_hit.id)} :
          WritePixel(GlossyChannel(ray_hit.mat.color.x, diffuse, specular),
                     GlossyChannel(ray_hit.mat.color.y, diffuse, specular),
                     GlossyChannel(ray_hit.mat.color.z, diffuse, specular))
    /\ branch' = "glossy"
    /\ UNCHANGED <<config, rerun, order, prev, ray_to_target, ray_hit, hit_space, i, bounces>>

\* Lines 302-305: the reflective branch is entered.
EnterReflective ==
    /\ pc = "shade"
    /\ IsHit(ray_hit)
    /\ ray_hit.mat.t = Reflective
    /\ hit_space' = FALSE
    /\ i' = 0
    /\ pc' = "loop"
    /\ branch' = "refl"
    /\ UNCHANGED <<config, rerun, order, k, img, prev, r, g, b, ray_to_target, ray_hit, bounces>>

\* Line 305: the range 0..reflection_depth is exhausted.
LoopExhausted ==
    /\ pc = "loop"
    /\ ~LoopRange(i, reflection_depth)
    /\ pc' = "after"
    /\ UNCHANGED <<config, rerun, order, k, img, prev, r, g, b, ray_to_target, ray_hit,
                   hit_space, i, bounces, branch>>

\* Lines 306-308: the current hit is not reflective, the loop breaks.
LoopBreak ==
    /\ pc = "loop"
    /\ LoopRange(i, reflection_depth)
    /\ ray_hit.mat.t # Reflective
    /\ pc' = "after"
    /\ UNCHANGED <<config, rerun, order, k, img, prev, r, g, b, ray_to_target, ray_hit,
                   hit_space, i, bounces, branch>>

\* Lines 310-326: one bounce off the current reflective hit.
Bounce ==
    /\ pc = "loop"
    /\ LoopRange(i, reflection_depth)
    /\ ray_hit.mat.t = Reflective
    /\ \E direction \in {ReflectDir(ray_to_target.direction_vector, ray_hit.surface_normal)} :
       \E hit \in {find_closest_hit(Ray(ray_hit.intersect, direction), ray_hit.id,
                                    spheres, triangles)} :
          /\ ray_to_target' = Ray(ray_hit.intersect, direction)
          /\ ray_hit' = hit
          /\ IF Lt(hit.t, 0) \/ hit.t = F32MAX
             THEN hit_space' = TRUE /\ pc' = "after" /\ i' = i
             ELSE hit_space' = hit_space /\ pc' = "loop" /\ i' = i + 1
    /\ bounces' = bounces + 1
    /\ UNCHANGED <<config, rerun, order, k, img, prev, r, g, b, branch>>

\* Lines 329-337: the final hit of the chain is shaded, or the pixel stays black.
ShadeFinal ==
    /\ pc = "after"
    /\ IF Resolved(ray_hit, hit_space)
       THEN \E diffuse \in {diffuse_calc(ray_hit, light_pos, spheres, triangles)} :
               WritePixel(DiffuseChannel(ray_hit.mat.color.x, diffuse),
                          DiffuseChannel(ray_hit.mat.color.y, diffuse),
                          DiffuseChannel(ray_hit.mat.color.z, diffuse))
       ELSE WritePixel(r, g, b)
    /\ UNCHANGED <<config, rerun, order, prev, ray_to_target, ray_hit, hit_space, i,
                   bounces, branch>>

\* The image is complete; the same scene and configuration are rendered again,
\* the pixels enumerated in either order.
Rerun ==
    /\ pc = "save"
    /\ ~rerun
    /\ rerun' = TRUE
    /\ prev' = img
    /\ img' = Blank(pixel_count)
    /\ k' = 0
    /\ order' \in Orders
    /\ pc' = "pixel"
    /\ UNCHANGED <<config, r, g, b, ray_to_target, ray_hit, hit_space, i, bounces, branch>>

\* Lines 340-342: img.save and "Done!".
Save ==
    /\ pc = "save"
    /\ rerun
    /\ pc' = "done"
    /\ UNCHANGED <<config, rerun, order, k, img, prev, r, g, b, ray_to_target, ray_hit,
                   hit_space, i, bounces, branch>>

Next ==
    \/ PrimaryRay
    \/ Miss
    \/ ShadeMatte
    \/ ShadeGlossy
    \/ EnterReflective
    \/ LoopExhausted
    \/ LoopBreak
    \/ Bounce
    \/ ShadeFinal
    \/ Rerun
    \/ Save

Spec == Init /\ [][Next]_vars

\* ------------------------------------------------------- properties
\* A ray has been cast (before the first pixel ray_to_target holds no ray).
HasRay == ray_to_target.direction_vector # start_pos

\* The shadow ray diffuse_calc and specular_calc cast from hit h towards light.
ShadowRay(h, light) == Ray(h.intersect, norm(VSub(light, h.intersect)))

\* Light positions the shading properties are checked for: main's and one more.
Lights == {light_pos, V(0, 5, 0)}

\* The rays of the current state: the primary or reflected ray just cast and,
\* when it hit something, the shadow ray from the hit point to main's light.  The second
\* rendering casts the rays of the first, so they are taken from the first.
TestRays ==
    IF rerun \/ pc \notin {"shade", "loop", "after"} THEN {}
    ELSE {ray_to_target} \cup
         (IF IsHit(ray_hit) THEN {ShadowRay(ray_hit, light_pos)} ELSE {})

SceneIds ==
    {spheres[j].id : j \in 1..Len(spheres)} \cup {triangles[j].id : j \in 1..Len(triangles)}

\* Ids a caller may exclude: every id of the scene, the -1 of primary rays,
\* the sentinel -2 and an id no primitive has.
ExclIds == SceneIds \cup {-2, -1, 0}

\* Ids the program itself excludes for the rays of the current state: the -1
\* of a primary ray and the id of the hit a reflected or shadow ray leaves.
CallIds == {-1, ray_hit.id}

\* Every primitive's own intersection record for a ray, whatever its id: the
\* sphere test, and the triangle test seeded with the no-hit sentinel (which
\* returns the sentinel when the ray misses the triangle).
OwnHits(ray) ==
    {sphere_hit(spheres[j], ray) : j \in 1..Len(spheres)} \cup
    ({triangle_hit(triangles[j], ray, NoHit(ray)) : j \in 1..Len(triangles)}
        \ {NoHit(ray)})

\* The valid hits of a ray: strictly positive distance, id not excluded.
ValidHits(ray, id) == {c \in OwnHits(ray) : Gt(c.t, 0) /\ c.id # id}

\* The pixel written last, while its locals are still in place.
Written == pc \in {"pixel", "save", "done"} /\ k > 0
LastPixel == PixelIndex(order, k - 1, pixel_count)

\* C1: the reflection loop casts at most max(reflection_depth, 0) reflected
\* rays per pixel; every step of the loop either leaves it or starts the next
\* of its at most reflection_depth iterations, so it cannot run forever; and
\* the pixel then written is black or the shading of a non-reflective hit that
\* did not escape.
C1_ReflectionTerminates ==
    /\ [](bounces <= (IF reflection_depth > 0 THEN reflection_depth ELSE 0))
    /\ [](pc = "loop" => (i = bounces /\ i <= (IF reflection_depth > 0 THEN reflection_depth ELSE 0)))
    /\ [][pc = "loop" => (pc' = "after" \/ (pc' = "loop" /\ i' = i + 1))]_vars
    /\ [][pc = "after" => (Written' /\ bounces' = bounces)]_vars
    /\ []((Written /\ branch = "refl")
            => (img[LastPixel] = Black \/ (ray_hit.mat.t # Reflective /\ ~hit_space)))

\* C1 witness: two facing mirrors, the depth bound (at least 2) used up and the
\* current hit still reflective.
C1_Witness ==
    /\ pc = "after"
    /\ reflection_depth >= 2
    /\ bounces = reflection_depth
    /\ ray_hit.mat.t = Reflective
    /\ ~hit_space

\* C2: for every ray of the run and every excluded id, a hit returned by
\* find_closest_hit never carries the excluded id.
C2_SelfExclusion ==
    \A ray \in TestRays : \A id \in ExclIds :
        LET h == find_closest_hit(ray, id, spheres, triangles)
        IN  h.t # F32MAX => h.id # id

\* C2 witness: a shadow ray leaves a hit primitive's surface and, with no id
\* excluded, would select that same primitive again.
C2_Witness ==
    /\ pc = "shade"
    /\ IsHit(ray_hit)
    /\ find_closest_hit(ShadowRay(ray_hit, light_pos), 0, spheres, triangles).id = ray_hit.id
    /\ find_closest_hit(ShadowRay(ray_hit, light_pos), ray_hit.id, spheres, triangles).id
         # ray_hit.id

\* C3: find_closest_hit returns a valid hit of smallest t, and the no-hit
\* sentinel exactly when there is no valid hit.
C3_ClosestHit ==
    \A ray \in TestRays : \A id \in ExclIds :
        LET h == find_closest_hit(ray, id, spheres, triangles)
            valid == ValidHits(ray, id)
        IN  /\ (h = NoHit(ray)) <=> (valid = {})
            /\ valid # {} => (h \in valid /\ \A c \in valid : h.t <= c.t)

\* C3 witness: a nearer primitive is excluded and a farther valid one is
\* returned.
C3_Witness ==
    \E ray \in TestRays : \E id \in SceneIds :
        LET h == find_closest_hit(ray, id, spheres, triangles)
        IN  /\ h.t # F32MAX
            /\ \E c \in OwnHits(ray) : c.id = id /\ Gt(c.t, 0) /\ Lt(c.t, h.t)

\* C4: when a primitive other than the hit one meets the shadow ray strictly
\* between the hit point and the light, diffuse_calc is 0.2 and specular_calc 0.
C4_Shadow ==
    (HasRay /\ IsHit(ray_hit)) =>
    \A light \in Lights :
        (\E c \in OwnHits(ShadowRay(ray_hit, light)) :
            /\ c.id # ray_hit.id
            /\ Gt(c.t, 0)
            /\ Lt(c.t, mag(VSub(light, ray_hit.intersect))))
        => /\ diffuse_calc(ray_hit, light, spheres, triangles) = Fifth
           /\ specular_calc(ray_hit.surface_normal, light, ray_hit.intersect,
                            spheres, triangles, ray_hit.id) = 0

\* C4 witness: a glossy pixel has been shaded in the shadow of another
\* primitive, on a surface that faces the light.
C4_Witness ==
    /\ Written
    /\ branch = "glossy"
    /\ \E c \in OwnHits(ShadowRay(ray_hit, light_pos)) :
            /\ c.id # ray_hit.id
            /\ Gt(c.t, 0)
            /\ Lt(c.t, mag(VSub(light_pos, ray_hit.intersect)))
    /\ Dot(ShadowRay(ray_hit, light_pos).direction_vector, ray_hit.surface_normal) > Fifth

\* C5: the second rendering of the same scene and configuration writes, in
\* either enumeration order, the pixels the first rendering wrote.
C5_Deterministic ==
    rerun => \A j \in 0..(k - 1) :
                img[PixelIndex(order, j, pixel_count)] = prev[PixelIndex(order, j, pixel_count)]

\* C5 witness: a second rendering in reverse order is complete and the image
\* is not uniform.
C5_Witness ==
    /\ pc = "done"
    /\ order = "rev"
    /\ \E p, q \in DOMAIN img : img[p] # img[q]

\* C6 (as claimed): a glossy hit at the end of a reflective chain is shaded
\* with colour x diffuse + specular.
C6_GlossyThroughMirror ==
    (Written /\ branch = "refl" /\ ~hit_space /\ ray_hit.mat.t = Glossy) =>
        LET diffuse == diffuse_calc(ray_hit, light_pos, spheres, triangles)
            specular == specular_calc(ray_hit.surface_normal, light_pos, ray_hit.intersect,
                                      spheres, triangles, ray_hit.id)
        IN  img[LastPixel] = <<GlossyChannel(ray_hit.mat.color.x, diffuse, specular),
                               GlossyChannel(ray_hit.mat.color.y, diffuse, specular),
                               GlossyChannel(ray_hit.mat.color.z, diffuse, specular)>>

\* C7: a reflective pixel whose chain escaped, or whose hit is still reflective
\* when the loop ends, is written black.
C7_BlackUnresolved ==
    (Written /\ branch = "refl" /\ (hit_space \/ ray_hit.mat.t = Reflective)) =>
        (img[LastPixel] = Black /\ r = 0 /\ g = 0 /\ b = 0)

\* C7 witness: a pixel was written after its reflected ray escaped on a later
\* bounce than the first.
C7_Witness ==
    /\ Written
    /\ branch = "refl"
    /\ hit_space
    /\ bounces >= 2

\* Seeds triangle_hit is called with for the j-th triangle: the one the
\* closest-hit search passes, the sentinel, and records at the solved distance
\* and just beside it.
Seeds(ray, id, j) ==
    LET t == TriSolve(triangles[j], ray).t
    IN  {TriangleLoop(ray, id, spheres, triangles, j - 1), NoHit(ray)} \cup
        (IF t \in {NaN, PInf, NInf} THEN {}
         ELSE {[NoHit(ray) EXCEPT !.t = v] : v \in {t - 1, t, t + 1}})

\* C8 (as claimed): triangle_hit returns close unchanged whenever t is negative
\* or not strictly closer than close.t, or gamma or beta is out of range.
C8_OnlyStrictlyNearer ==
    \A ray \in TestRays : \A id \in CallIds : \A j \in 1..Len(triangles) :
    \A close \in Seeds(ray, id, j) :
        LET s == TriSolve(triangles[j], ray)
        IN  (\/ Lt(s.t, 0) \/ ~Lt(s.t, close.t)
             \/ Lt(s.gamma, 0) \/ Gt(s.gamma, Scale)
             \/ Lt(s.beta, 0) \/ Gt(s.beta, OneMinus(s.gamma)))
            => triangle_hit(triangles[j], ray, close) = close

\* C8 (amended): triangle_hit returns close unchanged whenever t is negative or
\* strictly farther than close.t, or gamma or beta is out of range; otherwise
\* it returns the triangle's own record at distance t.
C8_NotFarther ==
    \A ray \in TestRays : \A id \in CallIds : \A j \in 1..Len(triangles) :
    \A close \in Seeds(ray, id, j) :
        LET s == TriSolve(triangles[j], ray)
            h == triangle_hit(triangles[j], ray, close)
        IN  IF \/ Lt(s.t, 0) \/ Gt(s.t, close.t)
               \/ Lt(s.gamma, 0) \/ Gt(s.gamma, Scale)
               \/ Lt(s.beta, 0) \/ Gt(s.beta, OneMinus(s.gamma))
            THEN h = close
            ELSE h.t = s.t /\ h.id = triangles[j].id /\ h.mat = triangles[j].mat

\* C8 witness: the closest-hit search hands triangle_hit a sphere's hit that is
\* exactly as far as the triangle, and triangle_hit returns the triangle's
\* record instead of it.
C8_Witness ==
    /\ pc = "shade"
    /\ \E j \in 1..Len(triangles) :
        LET close == TriangleLoop(ray_to_target, -1, spheres, triangles, j - 1)
        IN  /\ close.t # F32MAX
            /\ TriSolve(triangles[j], ray_to_target).t = close.t
            /\ triangle_hit(triangles[j], ray_to_target, close).id = triangles[j].id
            /\ close.id # triangles[j].id

\* The triangles a ray hits, each with its own record.
TriangleHits(ray) ==
    {j \in 1..Len(triangles) :
        triangle_hit(triangles[j], ray, NoHit(ray)) # NoHit(ray)}

\* C9 (as claimed): the normal of an accepted triangle hit is the normalized
\* cross(C-A, B-A).
C9_NormalCAxBA ==
    \A ray \in TestRays : \A j \in TriangleHits(ray) :
        triangle_hit(triangles[j], ray, NoHit(ray)).surface_normal =
            norm(cross(VSub(triangles[j].c, triangles[j].a),
                       VSub(triangles[j].b, triangles[j].a)))

\* C9 (amended): the normal of an accepted triangle hit is the normalized
\* cross(B-A, C-A), whatever the ray.
C9_NormalBAxCA ==
    \A ray \in TestRays : \A j \in TriangleHits(ray) :
        triangle_hit(triangles[j], ray, NoHit(ray)).surface_normal =
            norm(cross(VSub(triangles[j].b, triangles[j].a),
                       VSub(triangles[j].c, triangles[j].a)))

\* C9 witness: the closest hit of the ray just cast is a triangle's, and its
\* normal is neither zero nor NaN.
C9_Witness ==
    /\ pc = "shade"
    /\ IsHit(ray_hit)
    /\ \E j \in TriangleHits(ray_to_target) :
          /\ triangles[j].id = ray_hit.id
          /\ Dot(ray_hit.surface_normal, ray_hit.surface_normal) > 0

\* C10 (as claimed): the primary ray of a pixel selects the primitive of
\* nearest positive intersection, whatever its id.
C10_PrimaryExcludesNothing ==
    pc = "shade" =>
        LET hits == {c \in OwnHits(ray_to_target) : Gt(c.t, 0)}
        IN  hits # {} => (ray_hit \in hits /\ \A c \in hits : ray_hit.t <= c.t)
====
